---- MODULE Spec2Model ----
(***************************************************************************)
(* Device sample transfer orchestrator (src/lib/states/samples.svelte.ts). *)
(*                                                                         *)
(* The module state is the inventory snapshot (deviceSamplesState), the    *)
(* three operation channels (deviceSampleTransferState), the device behind *)
(* the transport (sampleManager) and the async calls in flight.  Every     *)
(* async function is a frame with a program position; a call suspends only *)
(* at an await of the device transport or of the pack fetch.  The steps    *)
(* between two such awaits, nested calls and their returns included, run   *)
(* within one event-loop task and are taken as one atomic step.            *)
(***************************************************************************)
EXTENDS Integers, Sequences, FiniteSets, Bags, TLC

VARIABLES snap, ch, dev, tasks, calls, log, verified

vars == <<snap, ch, dev, tasks, calls, log, verified>>

----------------------------------------------------------------------------
(* Bounds of the model *)

\* public calls made over a run
MaxCalls == 3
\* public calls made over a run of SpecFew
FewCalls == 2
\* public calls in flight (suspended at an await) at the same time
MaxInFlight == 2
\* a run of a single public call
OneCall == 1
\* ids in the list getIDs returns
MaxIds == 2
\* ids in the short lists given to buildDeviceSamplesFromIds
MaxBuildIds == 2
\* leading slots that vary in the collections compared
MaxEqSlots == 2

----------------------------------------------------------------------------
(* JavaScript values *)

\* T | null : null is <<>>, a value v is <<v>>
None == <<>>
Some(v) == <<v>>
IsTrue(o) == o = Some(TRUE)
IsFalse(o) == o = Some(FALSE)

\* values an async function of the module resolves with
Undefined == [t |-> "undefined"]
Null == [t |-> "null"]
Bool(b) == [t |-> "boolean", b |-> b]
Obj(o) == [t |-> "object", o |-> o]

\* !v is false
Truthy(v) == CASE v.t = "boolean" -> v.b
               [] v.t = "object" -> TRUE
               [] OTHER -> FALSE

\* a string is the sequence of its characters; "" is falsy
Dash == "-"
Space == " "

RECURSIVE TrimStart(_)
TrimStart(s) == IF s # <<>> /\ Head(s) = Space THEN TrimStart(Tail(s)) ELSE s

RECURSIVE TrimEnd(_)
TrimEnd(s) ==
  IF s # <<>> /\ s[Len(s)] = Space THEN TrimEnd(SubSeq(s, 1, Len(s) - 1)) ELSE s

\* id.trim()
Trim(s) == TrimEnd(TrimStart(s))

----------------------------------------------------------------------------
(* Sample packs and collections *)

SlotCount == 10

\* a loop is a loosely structured record: its <<key, value>> entries in
\* insertion order
Loop1 == << <<1, 10>>, <<2, 20>> >>
Loop1r == << <<2, 20>>, <<1, 10>> >>
Loop2 == << <<1, 11>>, <<2, 20>> >>

RECURSIVE InsertEntry(_, _)
InsertEntry(e, s) ==
  IF s = <<>> THEN <<e>>
  ELSE IF e[1] <= Head(s)[1] THEN <<e>> \o s
  ELSE <<Head(s)>> \o InsertEntry(e, Tail(s))

RECURSIVE SortEntries(_)
SortEntries(s) == IF s = <<>> THEN <<>> ELSE InsertEntry(Head(s), SortEntries(Tail(s)))

\* canonicalize: the entries ordered by key
canonicalize(loop) == SortEntries(loop)

Pack(name, loops) == [name |-> name, loops |-> loops]

\* pages with the first n slots taken from s and null beyond
RECURSIVE Pages(_, _)
Pages(s, n) ==
  IF n = 0 THEN <<>>
  ELSE Append(Pages(s, n - 1), IF n <= Len(s) THEN s[n] ELSE None)

NameP == <<"P">>
NameQ == <<"Q">>

CollA == Pages(<<Some(Pack(NameP, <<Loop1>>))>>, SlotCount)
CollAr == Pages(<<Some(Pack(NameP, <<Loop1r>>))>>, SlotCount)
CollB == Pages(<<Some(Pack(NameQ, <<Loop1>>))>>, SlotCount)
CollShort == Pages(<<Some(Pack(NameP, <<Loop1>>))>>, SlotCount - 1)

\* a comparison of packs that does not canonicalize the loops
PackEqualAsStored(a, b) ==
  IF a = None /\ b = None THEN TRUE
  ELSE IF a = None \/ b = None THEN FALSE
  ELSE a[1].name = b[1].name /\ a[1].loops = b[1].loops

\* samplePackEqual(a, b), a and b packs or null
samplePackEqual(a, b) ==
  IF a = None /\ b = None THEN TRUE
  ELSE IF a = None \/ b = None THEN FALSE
  ELSE IF a[1].name # b[1].name THEN FALSE
  ELSE LET loopsA == [i \in DOMAIN a[1].loops |-> canonicalize(a[1].loops[i])]
           loopsB == [i \in DOMAIN b[1].loops |-> canonicalize(b[1].loops[i])]
       IN  loopsA = loopsB

\* deviceSamplesEqual(a, b), a and b the pages of two collections
deviceSamplesEqual(a, b) ==
  IF Len(a) # SlotCount \/ Len(b) # SlotCount THEN FALSE
  ELSE \A i \in 1..SlotCount : samplePackEqual(a[i], b[i])

----------------------------------------------------------------------------
(* Snapshot and channels *)

DEFAULT_STATE ==
  [ids |-> None, deviceSamples |-> None, isSupported |-> None, isSet |-> None,
   storageTotal |-> None, storageUsed |-> None, packsStorageUsed |-> None]

Idle == [type |-> "idle", progress |-> None, message |-> ""]
Transferring(p) == [type |-> "transferring", progress |-> p, message |-> ""]
Error(m) == [type |-> "error", progress |-> None, message |-> m]

MsgBusy == "Transfer already in progress"
MsgNotSet == "Device samples not set"
MsgDownloadFailed == "Failed to download samples from device"
MsgUnsupported == "Device does not support samples"
MsgInvalidPayload == "Invalid samples payload"
MsgUploadFailed == "Failed to upload samples to device"
MsgStillNotSet == "Device samples are not set"
MsgRedownloadFailed == "Failed to re-download samples after upload"
MsgNotIdentical == "Uploaded and downloaded samples are not identical"
MsgDefaultsFailed == "Failed to construct default sample packs"
MsgInitUploadFailed == "Failed to upload default samples during initialisation"
MsgInitStillNotSet == "Device samples still not set after uploading defaults"

\* _isTransfering
isTransfering(c) ==
  \/ c.supportCheck.type = "transferring"
  \/ c.download.type = "transferring"
  \/ c.upload.type = "transferring"

----------------------------------------------------------------------------
(* Calls in flight *)

\* The world an async function reads and writes
World(s, c, d) == [snap |-> s, ch |-> c, dev |-> d]

\* The frame of a call of fn with argument arg, made in world w.  Beside the
\* position, the argument and the locals, a frame records what no step reads:
\* busy0 and snap0, the busy signal and the snapshot at the call; sync, that
\* the call has not suspended since; io, that it contacted the transport.
Frame(fn, arg, w) ==
  [fn |-> fn, pc |-> "start", arg |-> arg,
   loc |-> [i |-> 0, pages |-> <<>>, failed |-> FALSE, got |-> None,
            space |-> None, ids |-> None],
   busy0 |-> isTransfering(w.ch), snap0 |-> w.snap, sync |-> TRUE, io |-> FALSE]

\* A frame as it is kept over a suspension: of the snapshot at the call only
\* isSet is remembered, and only by a probe.
Suspended(f) ==
  [f EXCEPT !.sync = FALSE, !.busy0 = FALSE,
            !.snap0 = IF f.fn = "checkDeviceSampleSupport"
                      THEN [DEFAULT_STATE EXCEPT !.isSet = f.snap0.isSet]
                      ELSE DEFAULT_STATE]

\* what resumes a frame: its call, the settling of the promise it awaits
\* (fulfilled with v, or rejected), or the completion of the call it awaits
Start == [k |-> "start"]
Fulfilled(v) == [k |-> "ok", v |-> v]
Rejected == [k |-> "throw"]

\* how a run of a frame ends: at an await of the transport or the fetch, at
\* the call of another async function of the module, with a return or a throw
DeviceOps == {"isSet", "getSpaceUsed", "getIDs", "downloadSamples", "uploadSamples"}

Await(w, f, op) ==
  [k |-> "await", w |-> w, val |-> Undefined,
   f |-> [f EXCEPT !.pc = op, !.io = @ \/ op \in DeviceOps]]
Call(w, f, pc, fn, arg) ==
  [k |-> "call", w |-> w, f |-> [f EXCEPT !.pc = pc], callee |-> Frame(fn, arg, w)]
Ret(w, f, val) == [k |-> "ret", w |-> w, f |-> f, val |-> val]
Throw(w, f) == [k |-> "throw", w |-> w, f |-> f, val |-> Undefined]

SetCh(w, name, st) == [w EXCEPT !.ch[name] = st]

----------------------------------------------------------------------------
(* checkDeviceSampleSupport *)

\* id ? id[0] + "-" + id.slice(1) : null
DashId(id) ==
  IF id = None \/ id = Some(<<>>) THEN None
  ELSE Some(<<Head(id[1]), Dash>> \o Tail(id[1]))

\* ids.map(...); ids.push(ids.shift() || null)
TransformIds(ids) ==
  LET mapped == [i \in DOMAIN ids |-> DashId(ids[i])]
  IN  IF mapped = <<>> THEN <<None>> ELSE Append(Tail(mapped), Head(mapped))

\* lines 72-73
CheckFinish(w, f) ==
  LET w1 == SetCh(w, "supportCheck", Idle)
  IN  Ret(w1, f, Obj([supported |-> w1.snap.isSupported, isSet |-> w1.snap.isSet]))

\* lines 68-71
CheckCatch(w, f) ==
  CheckFinish([w EXCEPT !.snap.isSupported = Some(FALSE)],
              [f EXCEPT !.loc.failed = TRUE])

checkDeviceSampleSupport(w, f, in) ==
  CASE f.pc = "start" ->
         IF isTransfering(w.ch)
         THEN Ret(SetCh(w, "supportCheck", Error(MsgBusy)), f, Undefined)
         ELSE Await(SetCh(w, "supportCheck", Transferring(None)), f, "isSet")
    [] f.pc = "isSet" ->
         IF in.k = "throw" THEN CheckCatch(w, f)
         ELSE LET w1 == [w EXCEPT !.snap.isSupported = Some(TRUE),
                                  !.snap.isSet = Some(in.v)]
                  f1 == [f EXCEPT !.loc.got = Some(in.v)]
              IN  IF in.v = TRUE THEN Await(w1, f1, "getSpaceUsed")
                  ELSE CheckFinish(w1, f1)
    [] f.pc = "getSpaceUsed" ->
         IF in.k = "throw" THEN CheckCatch(w, f)
         ELSE Await([w EXCEPT !.snap.storageTotal = Some(in.v.tot),
                              !.snap.storageUsed = Some(in.v.usd),
                              !.snap.packsStorageUsed = Some(in.v.packs)],
                    [f EXCEPT !.loc.space = Some(in.v)], "getIDs")
    [] f.pc = "getIDs" ->
         IF in.k = "throw" THEN CheckCatch(w, f)
         ELSE CheckFinish([w EXCEPT !.snap.ids = Some(TransformIds(in.v))],
                          [f EXCEPT !.loc.ids = Some(in.v)])

----------------------------------------------------------------------------
(* downloadDeviceSamples *)

\* a download that does not look at the busy signal
DownloadIgnoringBusy(w, f) ==
  IF ~IsTrue(w.snap.isSet)
  THEN Ret(SetCh(w, "download", Error(MsgNotSet)), f, Null)
  ELSE Await(SetCh(w, "download", Transferring(None)), f, "downloadSamples")

\* lines 77-81, up to the await
DownloadStart(w, f) ==
  IF isTransfering(w.ch)
  THEN Ret(SetCh(w, "download", Error(MsgBusy)), f, Undefined)
  ELSE IF ~IsTrue(w.snap.isSet)
  THEN Ret(SetCh(w, "download", Error(MsgNotSet)), f, Null)
  ELSE Await(SetCh(w, "download", Transferring(None)), f, "downloadSamples")

downloadDeviceSamples(w, f, in) ==
  CASE f.pc = "start" -> DownloadStart(w, f)
    [] f.pc = "downloadSamples" ->
         IF in.k = "throw" THEN Throw(w, f)
         ELSE LET w1 == SetCh(w, "download", Idle)
              IN  IF in.v = None
                  THEN Ret(SetCh(w1, "download", Error(MsgDownloadFailed)), f, Null)
                  ELSE Ret([w1 EXCEPT !.snap.deviceSamples = in.v], f, Obj(in.v[1]))

----------------------------------------------------------------------------
(* uplaodDeviceSamples *)

UploadFail(w, f, msg) == Ret(SetCh(w, "upload", Error(msg)), f, Bool(FALSE))

\* an upload that takes a payload of any length
UploadAnyLength(w, f) ==
  IF isTransfering(w.ch) THEN UploadFail(w, f, MsgBusy)
  ELSE IF ~IsTrue(w.snap.isSupported) THEN UploadFail(w, f, MsgUnsupported)
  ELSE Await(SetCh(w, "upload", Transferring(None)), f, "uploadSamples")

\* an upload that looks at the payload before it looks at isSupported
UploadPayloadFirst(w, f) ==
  IF isTransfering(w.ch) THEN UploadFail(w, f, MsgBusy)
  ELSE IF Len(f.arg) # SlotCount THEN UploadFail(w, f, MsgInvalidPayload)
  ELSE IF ~IsTrue(w.snap.isSupported) THEN UploadFail(w, f, MsgUnsupported)
  ELSE Await(SetCh(w, "upload", Transferring(None)), f, "uploadSamples")

\* lines 90-94, up to the await
UploadStart(w, f) ==
  IF isTransfering(w.ch) THEN UploadFail(w, f, MsgBusy)
  ELSE IF ~IsTrue(w.snap.isSupported) THEN UploadFail(w, f, MsgUnsupported)
  ELSE IF Len(f.arg) # SlotCount THEN UploadFail(w, f, MsgInvalidPayload)
  ELSE Await(SetCh(w, "upload", Transferring(None)), f, "uploadSamples")

\* an upload that takes whatever the verification download returned
UploadUnverified(w, f, in) ==
  IF ~Truthy(in.v) THEN UploadFail(w, f, MsgRedownloadFailed)
  ELSE Ret(w, [f EXCEPT !.loc.got = Some(in.v.o)], Bool(TRUE))

\* lines 107-111
UploadVerify(w, f, in) ==
  IF ~Truthy(in.v) THEN UploadFail(w, f, MsgRedownloadFailed)
  ELSE IF ~deviceSamplesEqual(f.arg, in.v.o) THEN UploadFail(w, f, MsgNotIdentical)
  ELSE Ret(w, [f EXCEPT !.loc.got = Some(in.v.o)], Bool(TRUE))

uplaodDeviceSamples(w, f, in) ==
  CASE f.pc = "start" -> UploadStart(w, f)
    [] f.pc = "uploadSamples" ->
         IF in.k = "throw" THEN Throw(w, f)
         ELSE IF ~in.v THEN UploadFail(w, f, MsgUploadFailed)
         ELSE Await(SetCh(SetCh(w, "upload", Idle), "supportCheck", Transferring(None)),
                    f, "isSet")
    [] f.pc = "isSet" ->
         IF in.k = "throw" THEN Throw(w, f)
         ELSE LET w1 == SetCh([w EXCEPT !.snap.isSet = Some(in.v)], "supportCheck", Idle)
              IN  IF IsFalse(w1.snap.isSet) THEN UploadFail(w1, f, MsgStillNotSet)
                  ELSE Call(w1, f, "verify", "downloadDeviceSamples", None)
    [] f.pc = "verify" ->
         IF in.k = "throw" THEN Throw(w, f) ELSE UploadVerify(w, f, in)

----------------------------------------------------------------------------
(* buildDeviceSamplesFromIds, fetchServerPack *)

\* no default packs
NoPackIds == <<>>

DEFAULT_SAMPLE_PACK_IDS ==
  << Some(<<"W", "-", "M", "I", "X", "E", "D">>),
     Some(<<"W", "-", "U", "N", "D", "R", "G", "N", "D">>),
     Some(<<"W", "-", "O", "L", "L", "I">>),
     Some(<<"W", "-", "O", "G">>) >>

\* a fetch that leaves the pack the name the server gave it
FetchKeepingName(id, in) ==
  IF in.k = "throw" THEN None ELSE in.v

\* fetchServerPack(id) once the fetch has settled: res is the pack definition
\* of an ok response, or null for a response that is not ok; rejected is a
\* fetch or a res.json() that threw
fetchServerPack(id, in) ==
  IF in.k = "throw" THEN None
  ELSE IF in.v = None THEN None
  ELSE Some([in.v[1] EXCEPT !.name = id])

\* the for loop of lines 176-182 from index f.loc.i on, then lines 183-184
RECURSIVE BuildLoop(_, _)
BuildLoop(w, f) ==
  IF f.loc.i > Len(f.arg)
  THEN Ret(w, f, Obj([pages |-> Pages(f.loc.pages, SlotCount)]))
  ELSE LET id == f.arg[f.loc.i]
       IN  IF id = None \/ id = Some(<<>>)
           THEN BuildLoop(w, [f EXCEPT !.loc.i = @ + 1,
                                       !.loc.pages = Append(@, None)])
           ELSE Await(w, f, "fetch")

buildDeviceSamplesFromIds(w, f, in) ==
  CASE f.pc = "start" ->
         IF Len(f.arg) < 1 \/ Len(f.arg) > SlotCount THEN Ret(w, f, Null)
         ELSE BuildLoop(w, [f EXCEPT !.loc.i = 1])
    [] f.pc = "fetch" ->
         LET pack == fetchServerPack(Trim(f.arg[f.loc.i][1]), in)
         IN  IF pack = None THEN Ret(w, f, Null)
             ELSE BuildLoop(w, [f EXCEPT !.loc.i = @ + 1,
                                         !.loc.pages = Append(@, pack)])

----------------------------------------------------------------------------
(* uplaodDeviceDefaultSamples *)

uplaodDeviceDefaultSamples(w, f, in) ==
  CASE f.pc = "start" ->
         IF isTransfering(w.ch) THEN UploadFail(w, f, MsgBusy)
         ELSE Call(w, f, "build", "buildDeviceSamplesFromIds", DEFAULT_SAMPLE_PACK_IDS)
    [] f.pc = "build" ->
         IF in.k = "throw" THEN Throw(w, f)
         ELSE IF ~Truthy(in.v) THEN UploadFail(w, f, MsgDefaultsFailed)
         ELSE Call(w, f, "upload", "uplaodDeviceSamples", in.v.o.pages)
    [] f.pc = "upload" ->
         IF in.k = "throw" THEN Throw(w, f) ELSE Ret(w, f, in.v)

----------------------------------------------------------------------------
(* initialiseDeviceSamples *)

initialiseDeviceSamples(w, f, in) ==
  CASE f.pc = "start" -> Call(w, f, "support", "checkDeviceSampleSupport", None)
    [] f.pc = "support" ->
         IF in.k = "throw" THEN Throw(w, f)
         ELSE IF ~Truthy(in.v) THEN Ret(w, f, Undefined)
         ELSE IF ~IsTrue(in.v.o.supported) THEN Ret(w, f, Undefined)
         ELSE IF ~IsTrue(in.v.o.isSet)
         THEN Call(w, f, "didUpload", "uplaodDeviceDefaultSamples", None)
         ELSE Call(w, f, "download", "downloadDeviceSamples", None)
    [] f.pc = "didUpload" ->
         IF in.k = "throw" THEN Throw(w, f)
         ELSE IF ~Truthy(in.v)
         THEN Ret(SetCh(w, "upload", Error(MsgInitUploadFailed)), f, Undefined)
         ELSE Call(w, f, "supportAfter", "checkDeviceSampleSupport", None)
    [] f.pc = "supportAfter" ->
         IF in.k = "throw" THEN Throw(w, f)
         \* supportAfter.supported of undefined
         ELSE IF in.v.t = "undefined" THEN Throw(w, f)
         ELSE IF ~IsTrue(in.v.o.supported) \/ ~IsTrue(in.v.o.isSet)
         THEN Ret(SetCh(w, "supportCheck", Error(MsgInitStillNotSet)), f, Undefined)
         ELSE Call(w, f, "download", "downloadDeviceSamples", None)
    [] f.pc = "download" ->
         IF in.k = "throw" THEN Throw(w, f) ELSE Ret(w, f, Undefined)

----------------------------------------------------------------------------
(* waitForUploadToFinish *)

\* a wait that returns without looking at the channels
WaitWithoutPolling(w, f, in) == Ret(w, f, Undefined)

\* the while loop of lines 153-155: at the call and after every timeout
waitForUploadToFinish(w, f, in) ==
  IF \/ w.ch.supportCheck.type = "transferring"
     \/ w.ch.download.type = "transferring"
     \/ w.ch.upload.type = "transferring"
  THEN Await(w, f, "setTimeout")
  ELSE Ret(w, f, Undefined)

----------------------------------------------------------------------------
(* Running a call up to its next await *)

Segment(w, f, in) ==
  CASE f.fn = "checkDeviceSampleSupport" -> checkDeviceSampleSupport(w, f, in)
    [] f.fn = "downloadDeviceSamples" -> downloadDeviceSamples(w, f, in)
    [] f.fn = "uplaodDeviceSamples" -> uplaodDeviceSamples(w, f, in)
    [] f.fn = "buildDeviceSamplesFromIds" -> buildDeviceSamplesFromIds(w, f, in)
    [] f.fn = "uplaodDeviceDefaultSamples" -> uplaodDeviceDefaultSamples(w, f, in)
    [] f.fn = "initialiseDeviceSamples" -> initialiseDeviceSamples(w, f, in)
    [] f.fn = "waitForUploadToFinish" -> waitForUploadToFinish(w, f, in)

\* what is recorded of a call that suspends at an await of the transport or
\* the fetch (k = "await") or completes (k = "ret", "throw"): its frame and
\* result, and the channels, snapshot and device at that moment; top marks a
\* call made by the application rather than by a function of the module
Event(r, top) ==
  [k |-> r.k, fn |-> r.f.fn, pc |-> r.f.pc, val |-> r.val, arg |-> r.f.arg,
   loc |-> r.f.loc, busy0 |-> r.f.busy0, snap0 |-> r.f.snap0, sync |-> r.f.sync,
   io |-> r.f.io, ch |-> r.w.ch, snap |-> r.w.snap, dev |-> r.w.dev, top |-> top]

RECURSIVE SuspendAll(_)
SuspendAll(stack) ==
  IF stack = <<>> THEN <<>> ELSE <<Suspended(Head(stack))>> \o SuspendAll(Tail(stack))

\* Frame f, on top of the suspended frames of stack, resumes with in and runs
\* until the call suspends at an await or its outermost frame completes.
\* A callee starts within the step of its call; a caller resumes with the
\* result of its callee.  done collects the events on the way.
RECURSIVE Run(_, _, _, _, _)
Run(w, stack, f, in, done) ==
  LET r == Segment(w, f, in)
  IN  CASE r.k = "await" ->
             [w |-> r.w, stack |-> SuspendAll(Append(stack, r.f)),
              done |-> Append(done, Event(r, stack = <<>>))]
        [] r.k = "call" -> Run(r.w, Append(stack, r.f), r.callee, Start, done)
        [] OTHER ->
             LET done1 == Append(done, Event(r, stack = <<>>))
             IN  IF stack = <<>> THEN [w |-> r.w, stack |-> <<>>, done |-> done1]
                 ELSE Run(r.w, SubSeq(stack, 1, Len(stack) - 1), stack[Len(stack)],
                          IF r.k = "ret" THEN Fulfilled(r.val) ELSE Rejected, done1)

----------------------------------------------------------------------------
(* The device behind sampleManager, and the pack server *)

\* the same collection as the device may hand it back: the entries of every
\* loop in another order
RECURSIVE Reverse(_)
Reverse(s) == IF s = <<>> THEN <<>> ELSE Append(Reverse(Tail(s)), Head(s))

Recode(pages) ==
  [i \in DOMAIN pages |->
     IF pages[i] = None THEN None
     ELSE Some([pages[i][1] EXCEPT
                  !.loops = [j \in DOMAIN @ |-> Reverse(@[j])]])]

Count(pages) == Cardinality({i \in DOMAIN pages : pages[i] # None})

SpaceUsed(d) ==
  LET pages == IF d.samples = None THEN <<>> ELSE d.samples[1]
  IN  [tot |-> 2 * SlotCount, usd |-> Count(pages),
       packs |-> [i \in DOMAIN pages |-> IF pages[i] = None THEN 0 ELSE 1]]

DeviceIds(d) ==
  LET pages == IF d.samples = None THEN <<>> ELSE d.samples[1]
  IN  [i \in DOMAIN pages |->
         IF pages[i] = None THEN None ELSE Some(pages[i][1].name)]

Settled(in, d) == [in |-> in, dev |-> d]

\* how a call op of the transport, made with arg, may settle on device d
Settlements(op, arg, d) ==
  CASE op = "isSet" -> {Settled(Fulfilled(d.set), d), Settled(Rejected, d)}
    [] op = "getSpaceUsed" -> {Settled(Fulfilled(SpaceUsed(d)), d), Settled(Rejected, d)}
    [] op = "getIDs" -> {Settled(Fulfilled(DeviceIds(d)), d), Settled(Rejected, d)}
    [] op = "downloadSamples" ->
         {Settled(Fulfilled(IF d.set THEN d.samples ELSE None), d),
          Settled(Fulfilled(None), d), Settled(Rejected, d)}
    [] op = "uploadSamples" ->
         {Settled(Fulfilled(TRUE), [set |-> TRUE, samples |-> Some(Recode(arg))]),
          Settled(Fulfilled(TRUE), d),
          Settled(Fulfilled(FALSE), d),
          Settled(Rejected, d)}

\* the pack definition the server holds
ServerPack == [name |-> <<>>, loops |-> <<Loop1>>]

FetchSettlements == {Fulfilled(Some(ServerPack)), Fulfilled(None), Rejected}

ProgressValues == {50}

UploadInputs == {CollA, CollShort}

InitialDevices == {[set |-> FALSE, samples |-> None],
                   [set |-> TRUE, samples |-> Some(CollB)]}

----------------------------------------------------------------------------
(* The state machine *)

Init ==
  /\ snap = DEFAULT_STATE
  /\ ch = [supportCheck |-> Idle, download |-> Idle, upload |-> Idle]
  /\ dev \in InitialDevices
  /\ tasks = EmptyBag
  /\ calls = 0
  /\ log = <<>>
  /\ verified = None

\* verified is the collection of the last upload that returned true, for as
\* long as the device has not been written since: done are the events of the
\* step, d the device after it
Verified(done, d) ==
  LET ups == {i \in DOMAIN done : /\ done[i].fn = "uplaodDeviceSamples"
                                  /\ done[i].k = "ret"
                                  /\ done[i].val = Bool(TRUE)}
  IN  IF ups # {} THEN Some(done[CHOOSE i \in ups : TRUE].arg)
      ELSE IF d # dev THEN None
      ELSE verified

\* tasks is the bag of the calls in flight, each the stack of its frames
InFlight == BagToSet(tasks)
Top(t) == t[Len(t)]
Below(t) == SubSeq(t, 1, Len(t) - 1)
One(t) == SetToBag({t})

\* the application calls a public function, as one of at most n calls
Invoke(fn, arg, n) ==
  /\ calls < n
  /\ \E r \in {Run(World(snap, ch, dev), <<>>,
                     Frame(fn, arg, World(snap, ch, dev)), Start, <<>>)} :
         /\ r.stack = <<>> \/ BagCardinality(tasks) < MaxInFlight
         /\ snap' = r.w.snap
         /\ ch' = r.w.ch
         /\ tasks' = IF r.stack = <<>> THEN tasks ELSE tasks (+) One(r.stack)
         /\ log' = r.done
         /\ verified' = Verified(r.done, dev)
  /\ calls' = calls + 1
  /\ UNCHANGED dev

CallCheck(n) == Invoke("checkDeviceSampleSupport", None, n)
CallDownload(n) == Invoke("downloadDeviceSamples", None, n)
CallUpload(n) == \E c \in UploadInputs : Invoke("uplaodDeviceSamples", c, n)
CallUploadDefault(n) == Invoke("uplaodDeviceDefaultSamples", None, n)
CallInitialise(n) == Invoke("initialiseDeviceSamples", None, n)

\* the promise task t awaits settles with in, the device becoming d
Resume(t, in, d) ==
  \E r \in {Run(World(snap, ch, d), Below(t), Top(t), in, <<>>)} :
      /\ snap' = r.w.snap
      /\ ch' = r.w.ch
      /\ dev' = d
      /\ tasks' = IF r.stack = <<>> THEN tasks (-) One(t)
                   ELSE (tasks (-) One(t)) (+) One(r.stack)
      /\ log' = r.done
      /\ verified' = Verified(r.done, d)
      /\ UNCHANGED calls

TransportSettles(t) ==
  /\ Top(t).pc \in DeviceOps
  /\ \E s \in Settlements(Top(t).pc, Top(t).arg, dev) : Resume(t, s.in, s.dev)

FetchSettles(t) ==
  /\ Top(t).pc = "fetch"
  /\ \E in \in FetchSettlements : Resume(t, in, dev)

\* the transport reports progress of a download or an upload (lines 81, 94)
Progress(t) ==
  /\ Top(t).pc \in {"downloadSamples", "uploadSamples"}
  /\ \E val \in ProgressValues :
       LET name == IF Top(t).pc = "downloadSamples" THEN "download" ELSE "upload"
       IN  /\ ch[name] # Transferring(Some(val))
           /\ ch' = [ch EXCEPT ![name] = Transferring(Some(val))]
  /\ log' = <<>>
  /\ UNCHANGED <<snap, dev, tasks, calls, verified>>

\* a reset that keeps the downloaded collection
InvalidateKeepingSamples ==
  /\ snap # DEFAULT_STATE
  /\ snap' = [DEFAULT_STATE EXCEPT !.deviceSamples = snap.deviceSamples]
  /\ log' = <<>>
  /\ UNCHANGED <<ch, dev, tasks, calls, verified>>

\* Object.assign(deviceSamplesState, DEFAULT_STATE); DEFAULT_STATE itself is
\* taken to be left as it was written by the writes to deviceSamplesState.
\* A call that finds the snapshot all null changes nothing and is no step.
invalidateDeviceSamplesState ==
  /\ snap # DEFAULT_STATE
  /\ snap' = DEFAULT_STATE
  /\ log' = <<>>
  /\ UNCHANGED <<ch, dev, tasks, calls, verified>>

Step(n) ==
  \/ CallCheck(n)
  \/ CallDownload(n)
  \/ CallUpload(n)
  \/ CallUploadDefault(n)
  \/ CallInitialise(n)
  \/ \E t \in InFlight : TransportSettles(t)
  \/ \E t \in InFlight : FetchSettles(t)
  \/ \E t \in InFlight : Progress(t)
  \/ invalidateDeviceSamplesState

Next == Step(MaxCalls)

Spec == Init /\ [][Next]_vars

\* the same machine over runs of fewer public calls
NextFew == Step(FewCalls)

SpecFew == Init /\ [][NextFew]_vars

\* The machine with calls of waitForUploadToFinish(): beside at most OneCall
\* calls of the other functions, made first.  The timeout of a waiting call
\* always fires in the end.
CallWait(n) == Invoke("waitForUploadToFinish", None, n)

TimerFires(t) ==
  /\ Top(t).pc = "setTimeout"
  /\ Resume(t, Fulfilled(Undefined), dev)

Polls == \E t \in InFlight : TimerFires(t)

NextWait ==
  \/ Step(OneCall)
  \/ CallWait(FewCalls)
  \/ Polls

SpecWait == Init /\ [][NextWait]_vars /\ WF_vars(Polls)

\* Calls of buildDeviceSamplesFromIds(ids): ids of at most MaxBuildIds
\* entries (null, empty, blank, plain or padded with blanks), the same made
\* 10 and 11 long with nulls, and 10 and 11 plain ids.
BuildIds ==
  {None, Some(<<>>), Some(<<Space>>), Some(<<"A">>), Some(<<Space, "A", Space>>)}
ShortIds == UNION {[1..n -> BuildIds] : n \in 0..MaxBuildIds}
Nulls(n) == [i \in 1..n |-> None]
Plain(n) == [i \in 1..n |-> Some(<<"A">>)]
BuildInputs ==
  ShortIds
    \cup {s \o Nulls(SlotCount - Len(s)) : s \in ShortIds}
    \cup {s \o Nulls(SlotCount + 1 - Len(s)) : s \in ShortIds}
    \cup {Plain(SlotCount), Plain(SlotCount + 1)}

CallBuild ==
  /\ calls = 0
  /\ \E ids \in BuildInputs : Invoke("buildDeviceSamplesFromIds", ids, MaxCalls)

NextBuild ==
  \/ CallBuild
  \/ \E t \in InFlight : FetchSettles(t)

SpecBuild == Init /\ [][NextBuild]_vars

\* Calls of deviceSamplesEqual(a, b) and deviceSamplesEqual(b, a): a and b
\* collections of 10 slots whose first MaxEqSlots slots are null or one of
\* four packs, or collections of 9 and of 11 slots.
EqSlots ==
  {None, Some(Pack(NameP, <<Loop1>>)), Some(Pack(NameP, <<Loop1r>>)),
   Some(Pack(NameP, <<Loop2>>)), Some(Pack(NameQ, <<Loop1>>))}
EqInputs ==
  {Pages(s, SlotCount) : s \in [1..MaxEqSlots -> EqSlots]}
    \cup {CollShort, Pages(<<Some(Pack(NameP, <<Loop1>>))>>, SlotCount + 1)}

Compared(a, b) ==
  LET w == World(snap, ch, dev)
  IN  Event(Ret(w, Frame("deviceSamplesEqual", <<a, b>>, w),
                Bool(deviceSamplesEqual(a, b))), FALSE)

CompareSamples ==
  /\ log = <<>>
  /\ \E a, b \in EqInputs : log' = <<Compared(a, b), Compared(b, a)>>
  /\ UNCHANGED <<snap, ch, dev, tasks, calls, verified>>

SpecEqual == Init /\ [][CompareSamples]_vars

\* One probe of a device that reports isSet = true and whose getIDs returns
\* any sequence of at most MaxIds ids: the names of the packs it holds, a
\* null for an empty slot.
IdNames == {<<>>, <<"A">>, <<"A", "B", "C", "D">>, <<"W", "X", "Y", "Z">>}
IdSlots == {None} \cup {Some(Pack(n, <<>>)) : n \in IdNames}
IdDevices ==
  {[set |-> TRUE, samples |-> Some(p)] :
     p \in UNION {[1..n -> IdSlots] : n \in 0..MaxIds}}

InitIds ==
  /\ snap = DEFAULT_STATE
  /\ ch = [supportCheck |-> Idle, download |-> Idle, upload |-> Idle]
  /\ dev \in IdDevices
  /\ tasks = EmptyBag
  /\ calls = 0
  /\ log = <<>>
  /\ verified = None

NextIds ==
  \/ CallCheck(OneCall)
  \/ \E t \in InFlight : TransportSettles(t)

SpecIds == InitIds /\ [][NextIds]_vars

\* The initialisation scenario: a device that is not set, a transport that
\* never fails and stores what is uploaded, a pack server that answers every
\* fetch with a pack, and no caller but one initialiseDeviceSamples().
ServerPacks ==
  {[name |-> <<>>, loops |-> <<l>>] : l \in {Loop1, Loop1r, Loop2}}

\* the one way a call op of a transport that never fails settles
Succeeds(op, arg, d) ==
  CASE op = "isSet" -> Settled(Fulfilled(d.set), d)
    [] op = "getSpaceUsed" -> Settled(Fulfilled(SpaceUsed(d)), d)
    [] op = "getIDs" -> Settled(Fulfilled(DeviceIds(d)), d)
    [] op = "downloadSamples" -> Settled(Fulfilled(d.samples), d)
    [] op = "uploadSamples" ->
         Settled(Fulfilled(TRUE), [set |-> TRUE, samples |-> Some(Recode(arg))])

InitScenario ==
  /\ snap = DEFAULT_STATE
  /\ ch = [supportCheck |-> Idle, download |-> Idle, upload |-> Idle]
  /\ dev = [set |-> FALSE, samples |-> None]
  /\ tasks = EmptyBag
  /\ calls = 0
  /\ log = <<>>
  /\ verified = None

OnlyInitialise == calls = 0 /\ CallInitialise(MaxCalls)

TransportSucceeds(t) ==
  /\ Top(t).pc \in DeviceOps
  /\ \E s \in {Succeeds(Top(t).pc, Top(t).arg, dev)} : Resume(t, s.in, s.dev)

FetchSucceeds(t) ==
  /\ Top(t).pc = "fetch"
  /\ \E p \in ServerPacks : Resume(t, Fulfilled(Some(p)), dev)

NextScenario ==
  \/ OnlyInitialise
  \/ \E t \in InFlight : TransportSucceeds(t)
  \/ \E t \in InFlight : FetchSucceeds(t)
  \/ \E t \in InFlight : Progress(t)

\* a step of the scenario is possible: the call is still to be made, or a
\* promise of the transport or of the fetch is pending
Pending == calls = 0 \/ tasks # EmptyBag

\* Every pending promise settles: weak fairness of NextScenario, written
\* with Pending for ENABLED <<NextScenario>>_vars.
SpecScenario ==
  /\ InitScenario
  /\ [][NextScenario]_vars
  /\ ([]<>(~Pending) \/ []<><<NextScenario>>_vars)

----------------------------------------------------------------------------
(* Properties *)

Events == {log[i] : i \in DOMAIN log}
Completions == {e \in Events : e.k \in {"ret", "throw"}}
Of(fn) == {e \in Events : e.fn = fn}

Guarded == {"checkDeviceSampleSupport", "downloadDeviceSamples", "uplaodDeviceSamples"}

\* the channel a function reports on
ChannelOf(fn) ==
  CASE fn = "checkDeviceSampleSupport" -> "supportCheck"
    [] fn = "downloadDeviceSamples" -> "download"
    [] OTHER -> "upload"

\* the channel a call holds InProgress while it awaits the transport
AwaitChannel(f) ==
  IF f.fn = "uplaodDeviceSamples" /\ f.pc = "isSet" THEN "supportCheck"
  ELSE ChannelOf(f.fn)

\* the device transport calls outstanding
Outstanding == {t \in InFlight : Top(t).pc \in DeviceOps}
OutstandingCount ==
  LET RECURSIVE Sum(_)
      Sum(S) == IF S = {} THEN 0
                ELSE LET t == CHOOSE x \in S : TRUE
                     IN  CopiesIn(t, tasks) + Sum(S \ {t})
  IN  Sum(Outstanding)

\* C1: at most one device transport call is outstanding at any time.
C1_MutualExclusion == OutstandingCount <= 1

\* C2: a probe, download or upload called while a channel is InProgress
\* returns at once with a falsy result, having contacted no transport, with
\* the busy message in its own channel and the snapshot as it was.
C2_BusyFailFast ==
  \A e \in Events :
    (e.fn \in Guarded /\ e.busy0) =>
      /\ e.k = "ret"
      /\ e.sync
      /\ ~e.io
      /\ ~Truthy(e.val)
      /\ e.ch[ChannelOf(e.fn)] = Error(MsgBusy)
      /\ e.snap = e.snap0

\* a download is rejected while a probe awaits the transport
C2_Witness ==
  /\ \E e \in Events : e.fn = "downloadDeviceSamples" /\ e.busy0 /\ e.k = "ret"
  /\ \E t \in InFlight : Top(t).fn = "checkDeviceSampleSupport"

UploadedTrue ==
  {e \in Of("uplaodDeviceSamples") : e.k = "ret" /\ e.val = Bool(TRUE)}
Downloaded ==
  {e \in Of("downloadDeviceSamples") : e.k = "ret" /\ e.val.t = "object"}

\* C3: when an upload of C returns true, the collection its verification
\* download read is equality-verified against C and is the snapshot's
\* deviceSamples; and a download that returns a collection while the device
\* has not been written since returns one equality-verified against C.
C3_VerifiedUpload ==
  /\ \A e \in UploadedTrue :
       /\ Len(e.arg) = SlotCount
       /\ e.loc.got # None
       /\ deviceSamplesEqual(e.arg, e.loc.got[1])
       /\ e.snap.deviceSamples = e.loc.got
  /\ \A e \in Downloaded :
       verified # None => deviceSamplesEqual(verified[1], e.val.o)

\* a download called by the application, after a verified upload, returns a
\* collection that is not the uploaded one slot for slot
C3_Witness ==
  \E e \in Downloaded : e.top /\ verified # None /\ e.val.o # verified[1]

\* C4: a channel set to InProgress stays so while the transport call is
\* outstanding and is Idle or Failed when the call completes; with no call
\* in flight no channel is InProgress.
C4_NoDanglingChannel ==
  /\ \A t \in Outstanding : ch[AwaitChannel(Top(t))].type = "transferring"
  /\ \A e \in Completions :
       e.fn \in Guarded => e.ch[ChannelOf(e.fn)].type # "transferring"
  /\ tasks = EmptyBag => ~isTransfering(ch)

\* C5: no public operation ends with a thrown fault.
C5_NoThrownFaults == \A e \in Events : e.k # "throw"

\* the precondition an upload call violates first, "" when it violates none
FirstViolated(e) ==
  IF e.busy0 THEN MsgBusy
  ELSE IF ~IsTrue(e.snap0.isSupported) THEN MsgUnsupported
  ELSE IF Len(e.arg) # SlotCount THEN MsgInvalidPayload
  ELSE ""

\* the upload calls as they return or suspend for the first time
UploadCalls == {e \in Of("uplaodDeviceSamples") : e.sync}

\* C6 as claimed: an upload of a collection that has not 10 slots fails with
\* the payload-validation error whatever the busy signal and isSupported are.
C6_AlwaysPayloadError ==
  \A e \in UploadCalls :
    Len(e.arg) # SlotCount =>
      /\ e.k = "ret"
      /\ e.val = Bool(FALSE)
      /\ ~e.io
      /\ e.ch.upload = Error(MsgInvalidPayload)

\* C6 as amended: an upload of a collection that has not 10 slots returns
\* false without contacting the transport, the upload channel Failed with
\* the message of the first violated precondition: the payload-validation
\* error when the call is made not busy and with isSupported true.
C6_InvalidPayloadFails ==
  \A e \in UploadCalls :
    Len(e.arg) # SlotCount =>
      /\ e.k = "ret"
      /\ e.val = Bool(FALSE)
      /\ ~e.io
      /\ e.ch.upload = Error(FirstViolated(e))
      /\ (~e.busy0 /\ IsTrue(e.snap0.isSupported))
           => e.ch.upload = Error(MsgInvalidPayload)

C6_Witness ==
  \E e \in UploadCalls :
    /\ Len(e.arg) # SlotCount
    /\ ~e.busy0
    /\ IsTrue(e.snap0.isSupported)
    /\ e.ch.upload = Error(MsgInvalidPayload)

\* C7: an upload awaits uploadSamples only when, at the call, the busy
\* signal is false, isSupported is true and the payload has 10 slots;
\* otherwise it returns false, the upload channel Failed with the message
\* of the first violated precondition, device and snapshot untouched.
C7_UploadPreconditions ==
  \A e \in UploadCalls :
    IF FirstViolated(e) = ""
    THEN e.k = "await" /\ e.pc = "uploadSamples"
    ELSE /\ e.k = "ret"
         /\ e.val = Bool(FALSE)
         /\ e.ch.upload = Error(FirstViolated(e))
         /\ ~e.io
         /\ e.snap = e.snap0
         /\ e.dev = dev

\* a short payload is refused as unsupported, not as invalid
C7_Witness ==
  \E e \in UploadCalls :
    /\ ~e.busy0
    /\ ~IsTrue(e.snap0.isSupported)
    /\ Len(e.arg) # SlotCount
    /\ e.ch.upload = Error(MsgUnsupported)

\* C8: a download awaits the transport only when called not busy and with
\* isSet true; on every failing path it returns null with the download
\* channel Failed and deviceSamples unchanged; on success the channel is
\* Idle and the collection it returns is the one stored in deviceSamples.
C8_DownloadContract ==
  \A e \in Of("downloadDeviceSamples") :
    /\ (e.k = "await") => (~e.busy0 /\ IsTrue(e.snap0.isSet))
    /\ (e.sync /\ (e.busy0 \/ ~IsTrue(e.snap0.isSet))) =>
         /\ e.k = "ret"
         /\ e.val = Null
         /\ e.ch.download.type = "error"
         /\ e.snap = e.snap0
    /\ (e.k = "ret" /\ ~e.sync) =>
         \/ /\ e.val = Null
            /\ e.ch.download.type = "error"
         \/ /\ e.val.t = "object"
            /\ e.ch.download = Idle
            /\ e.snap.deviceSamples = Some(e.val.o)

\* the probes that ended in the catch block
ProbeFailures ==
  {e \in Of("checkDeviceSampleSupport") : e.k = "ret" /\ e.loc.failed}

\* C9: a probe that ends through a transport failure leaves isSupported
\* false, the probe channel Idle and isSet as it was at the call, and
\* returns {supported: false, isSet: that value}.
C9_ProbeFailure ==
  \A e \in ProbeFailures :
    /\ e.snap.isSupported = Some(FALSE)
    /\ e.ch.supportCheck = Idle
    /\ e.snap.isSet = e.snap0.isSet
    /\ e.val = Obj([supported |-> Some(FALSE), isSet |-> e.snap0.isSet])

\* the probes whose transport calls all succeeded
ProbeSuccesses ==
  {e \in Of("checkDeviceSampleSupport") : e.k = "ret" /\ e.io /\ ~e.loc.failed}

\* C10: a probe whose transport calls all succeed, isSet() yielding v,
\* returns {supported: true, isSet: v} with the probe channel Idle; when it
\* returns {true, true} the snapshot holds what that probe obtained.
C10_ProbeSuccess ==
  \A e \in ProbeSuccesses :
    /\ e.val = Obj([supported |-> Some(TRUE), isSet |-> e.loc.got])
    /\ e.ch.supportCheck = Idle
    /\ e.val = Obj([supported |-> Some(TRUE), isSet |-> Some(TRUE)]) =>
         /\ e.snap.isSupported = Some(TRUE)
         /\ e.snap.isSet = Some(TRUE)
         /\ e.loc.space # None
         /\ e.loc.ids # None
         /\ e.snap.storageTotal = Some(e.loc.space[1].tot)
         /\ e.snap.storageUsed = Some(e.loc.space[1].usd)
         /\ e.snap.packsStorageUsed = Some(e.loc.space[1].packs)
         /\ e.snap.ids = Some(TransformIds(e.loc.ids[1]))

\* the id the transformation is to put for id x; any id for an empty string
IdExpected(x, y) ==
  IF x = None THEN y = None
  ELSE IF x[1] = <<>> THEN TRUE
  ELSE y = Some(<<Head(x[1]), Dash>> \o Tail(x[1]))

\* C11: the ids a successful probe with isSet = true stores are the list
\* getIDs returned, every non-null id with a dash after its first character,
\* rotated left by one position, and as long as that list, an empty list
\* included; ABCD, WXYZ gives W-XYZ, A-BCD.
C11_IdTransformation ==
  \A e \in ProbeSuccesses :
    e.loc.ids # None =>
      LET s == e.loc.ids[1]
          out == e.snap.ids[1]
      IN  /\ e.snap.ids # None
          /\ Len(out) = Len(s)
          /\ \A i \in 1..Len(s) : IdExpected(s[(i % Len(s)) + 1], out[i])
          /\ s = <<Some(<<"A", "B", "C", "D">>), Some(<<"W", "X", "Y", "Z">>)>>
               => out = <<Some(<<"W", "-", "X", "Y", "Z">>),
                          Some(<<"A", "-", "B", "C", "D">>)>>

\* the initialisation the application called has returned
InitReturned ==
  \E e \in Events : e.fn = "initialiseDeviceSamples" /\ e.top /\ e.k = "ret"

\* the collection built of the default packs: the packs named by
\* DEFAULT_SAMPLE_PACK_IDS in the first slots, null in the others
IsDefaultCollection(c) ==
  /\ Len(c) = SlotCount
  /\ \A i \in 1..SlotCount :
       IF i <= Len(DEFAULT_SAMPLE_PACK_IDS)
       THEN c[i] # None /\ Some(c[i][1].name) = DEFAULT_SAMPLE_PACK_IDS[i]
       ELSE c[i] = None

InitOutcome ==
  /\ ch = [supportCheck |-> Idle, download |-> Idle, upload |-> Idle]
  /\ verified # None
  /\ IsDefaultCollection(verified[1])
  /\ dev = [set |-> TRUE, samples |-> Some(Recode(verified[1]))]
  /\ IsTrue(snap.isSupported)
  /\ IsTrue(snap.isSet)
  /\ snap.ids # None
  /\ snap.deviceSamples # None
  /\ deviceSamplesEqual(verified[1], snap.deviceSamples[1])

\* C12: on a device that is not set, with a transport that never fails and
\* a pack server that answers, initialiseDeviceSamples() called alone
\* eventually returns; when it has returned the default collection was built
\* and is what the one upload stored, the probe after it found isSet true,
\* the three channels are Idle and deviceSamples is equality-verified
\* against the collection built; the device is written once only.
C12_InitialisationScenario ==
  /\ <>InitReturned
  /\ [](InitReturned => InitOutcome)
  /\ [][dev' # dev => ~dev.set]_vars

\* the initialisation has returned after it uploaded and downloaded
C12_Witness ==
  InitReturned /\ dev.set /\ snap.deviceSamples # None /\ tasks = EmptyBag

\* the events of the step in which a callee completes at position i of the
\* log: the next event is the caller's, or that of the next function the
\* caller calls
Returned(fn) ==
  {i \in DOMAIN log : log[i].fn = fn /\ ~log[i].top /\ log[i].k \in {"ret", "throw"}}

\* initialiseDeviceSamples ends at position i of the log, at pc, having
\* contacted neither the transport nor the server since position i - 1
InitEndsAt(i, pc) ==
  /\ i = Len(log)
  /\ log[i].fn = "initialiseDeviceSamples"
  /\ log[i].pc = pc
  /\ log[i].k \in {"ret", "throw"}
  /\ log[i].dev = log[i - 1].dev

\* C13: in initialiseDeviceSamples, after a probe without a result or not
\* reporting supported the initialisation ends without a fetch or a
\* transport call; after a probe reporting isSet = true the next thing
\* done is the download; after a default upload that failed the
\* initialisation ends with the upload channel Failed, without a probe or
\* a download.
C13_InitialisationAborts ==
  /\ \A i \in Returned("checkDeviceSampleSupport") :
       LET v == log[i].val
       IN  IF ~Truthy(v) \/ ~IsTrue(v.o.supported)
           THEN \/ InitEndsAt(i + 1, "support") /\ log[i + 1].k = "ret"
                                                /\ log[i + 1].ch = log[i].ch
                \/ InitEndsAt(i + 1, "supportAfter")
           ELSE IsTrue(v.o.isSet) =>
                  /\ i < Len(log)
                  /\ log[i + 1].fn = "downloadDeviceSamples"
                  /\ log[i + 1].sync
  /\ \A i \in Returned("uplaodDeviceDefaultSamples") :
       (log[i].k = "throw" \/ ~Truthy(log[i].val)) =>
           /\ InitEndsAt(i + 1, "didUpload")
           /\ log[i + 1].ch.upload.type = "error"

Waits == Of("waitForUploadToFinish")
Waiting == \E t \in InFlight : Top(t).fn = "waitForUploadToFinish"

\* C14: waitForUploadToFinish returns only when no channel is InProgress;
\* a step of it changes no channel, nor the snapshot, nor the device; and
\* if from some moment on no channel is InProgress, from some moment on no
\* call of it is waiting.
C14_WaitForUploadToFinish ==
  /\ [](\A e \in Waits : e.k = "ret" => ~isTransfering(ch))
  /\ [][(\E i \in DOMAIN log' : log'[i].fn = "waitForUploadToFinish")
          => (ch' = ch /\ snap' = snap /\ dev' = dev)]_vars
  /\ (<>[](~isTransfering(ch))) => <>[](~Waiting)

\* a call that found a channel InProgress has returned after a timeout
C14_Witness ==
  \E e \in Waits : e.k = "ret" /\ ~e.sync /\ ~isTransfering(ch)

Builds == Of("buildDeviceSamplesFromIds")

\* an id the builder fetches a pack for
NonEmptyId(id) == id # None /\ id # Some(<<>>)

\* slot i of pages is what the builder is to put for ids: the fetched pack
\* named by the trimmed id, null for an empty id or beyond the list
SlotBuilt(ids, pages, i) ==
  IF i <= Len(ids) /\ NonEmptyId(ids[i])
  THEN pages[i] # None /\ pages[i][1].name = Trim(ids[i][1])
  ELSE pages[i] = None

\* C15: buildDeviceSamplesFromIds(ids) returns null at once when ids has
\* not 1 to 10 entries; it goes on to the next fetch only when every
\* fetch before gave a pack; and what it returns is null or a collection
\* of exactly 10 slots, each the fetched pack named by the trimmed id, or
\* null for an empty id and beyond the list.
C15_DefaultInventoryBuilder ==
  \A e \in Builds :
    /\ (Len(e.arg) < 1 \/ Len(e.arg) > SlotCount) =>
         e.k = "ret" /\ e.val = Null /\ e.sync
    /\ e.k = "await" =>
         /\ e.pc = "fetch"
         /\ NonEmptyId(e.arg[e.loc.i])
         /\ Len(e.loc.pages) = e.loc.i - 1
         /\ \A j \in 1..(e.loc.i - 1) : SlotBuilt(e.arg, e.loc.pages, j)
    /\ e.k = "ret" =>
         \/ e.val = Null
         \/ /\ e.val.t = "object"
            /\ Len(e.val.o.pages) = SlotCount
            /\ \A i \in 1..SlotCount : SlotBuilt(e.arg, e.val.o.pages, i)
    /\ e.k # "throw"
    /\ e.ch = ch /\ e.snap = snap

\* a collection is returned for a list with an empty id and an id padded
\* with blanks
C15_Witness ==
  \E e \in Builds :
    /\ e.k = "ret" /\ e.val # Null
    /\ Len(e.arg) = 2
    /\ e.arg[1] = Some(<<>>)
    /\ e.arg[2] = Some(<<Space, "A", Space>>)
    /\ e.val.o.pages[2][1].name = <<"A">>

\* two packs are equal as the verifier is to find them: both empty, or both
\* packs of one name whose loops are the same once canonicalized
PackEqual(x, y) ==
  \/ x = None /\ y = None
  \/ /\ x # None /\ y # None
     /\ x[1].name = y[1].name
     /\ Len(x[1].loops) = Len(y[1].loops)
     /\ \A j \in DOMAIN x[1].loops :
          canonicalize(x[1].loops[j]) = canonicalize(y[1].loops[j])

\* C16: deviceSamplesEqual(a, b) is true exactly when a and b have 10
\* slots each and are pack-equal slot by slot; deviceSamplesEqual(b, a) is
\* the same; deviceSamplesEqual(a, a) is true for a of 10 slots; no two
\* packs of different names make it true.
C16_EqualityVerifier ==
  Of("deviceSamplesEqual") # {} =>
    LET a == log[1].arg[1]
        b == log[1].arg[2]
    IN  /\ log[1].val = Bool(/\ Len(a) = SlotCount
                             /\ Len(b) = SlotCount
                             /\ \A i \in 1..SlotCount : PackEqual(a[i], b[i]))
        /\ log[2].arg = <<b, a>>
        /\ log[2].val = log[1].val
        /\ (a = b /\ Len(a) = SlotCount) => log[1].val = Bool(TRUE)
        /\ (\E i \in DOMAIN a \cap DOMAIN b :
              a[i] # None /\ b[i] # None /\ a[i][1].name # b[i][1].name)
             => log[1].val = Bool(FALSE)

\* two collections that differ in the order of a loop's entries are found
\* equal
C16_Witness ==
  /\ Of("deviceSamplesEqual") # {}
  /\ log[1].arg[1] # log[1].arg[2]
  /\ log[1].arg[1][1] # None
  /\ log[1].val = Bool(TRUE)

\* C17: a step of invalidateDeviceSamplesState, in whatever state, leaves
\* every field of the snapshot null and the three channels as they were.
C17_ResetFrame ==
  [][invalidateDeviceSamplesState =>
       /\ snap' = [ids |-> None, deviceSamples |-> None, isSupported |-> None,
                   isSet |-> None, storageTotal |-> None, storageUsed |-> None,
                   packsStorageUsed |-> None]
       /\ ch' = ch]_vars

\* the snapshot is all null while a probe that has written isSupported and
\* isSet awaits getSpaceUsed, the probe channel InProgress
C17_Witness ==
  /\ snap = DEFAULT_STATE
  /\ ch.supportCheck.type = "transferring"
  /\ \E t \in InFlight : Top(t).pc = "getSpaceUsed"

\* C18: when uplaodDeviceSamples returns false the upload channel is
\* Failed, and when it returns true the upload channel is Idle.
C18_UploadResultMatchesChannel ==
  \A e \in Of("uplaodDeviceSamples") :
    e.k = "ret" =>
      /\ e.val = Bool(FALSE) => e.ch.upload.type = "error"
      /\ e.val = Bool(TRUE) => e.ch.upload = Idle

\* C19: a call of the application rejected on the busy path changes its own
\* channel only, the busy signal is true right after it, and a channel
\* that was InProgress at the call is InProgress after it.
C19_BusyRejectionKeepsLock ==
  [][\A i \in DOMAIN log' :
       (log'[i].fn \in Guarded /\ log'[i].busy0 /\ log'[i].k = "ret" /\ log'[i].top) =>
         /\ snap' = snap /\ dev' = dev /\ tasks' = tasks
         /\ \A c \in DOMAIN ch : c # ChannelOf(log'[i].fn) => ch'[c] = ch[c]
         /\ isTransfering(ch')
         /\ \A c \in DOMAIN ch :
              ch[c].type = "transferring" => ch'[c].type = "transferring"]_vars

\* C20: with no call in flight, isSet true in the snapshot goes with
\* isSupported true.
C20_SnapshotFlags ==
  tasks = EmptyBag => (IsTrue(snap.isSet) => IsTrue(snap.isSupported))

====
